---- MODULE Spec2Model ----
(***************************************************************************)
(* A model of the spherical geometry library (plotting/spherical.py) and   *)
(* of the great-circle path generator (plotting/xsection.py).              *)
(*                                                                         *)
(* float64 values are modelled as fixed-point numbers: the integer n       *)
(* stands for the real n / SCALE, and every arithmetic primitive computes  *)
(* the exact result and then rounds it to the grid, as an IEEE operation   *)
(* rounds to the nearest representable value.  The three special values    *)
(* of float64 that the library can produce (nan, +inf, -inf) are kept.     *)
(***************************************************************************)
EXTENDS Integers, Sequences, FiniteSets

\* ------------------------------------------------------------------------
\* float64 arithmetic
\* ------------------------------------------------------------------------

SCALE == 10000

NaN == 2000000001

PosInf == 2000000000

NegInf == -2000000000

IsNum(x) == x \notin {NaN, PosInf, NegInf}

IsNaN(x) == x = NaN

Abs(x) == IF x < 0 THEN 0 - x ELSE x

\* a / b rounded to the nearest integer (b > 0), symmetric in the sign of a
RDiv(a, b) ==
    IF a >= 0 THEN (2 * a + b) \div (2 * b)
    ELSE 0 - ((2 * (0 - a) + b) \div (2 * b))

\* numpy.pi and its fractions on the grid
PI == RDiv(355 * SCALE, 113)

HALFPI == RDiv(355 * SCALE, 226)

QUARTERPI == RDiv(355 * SCALE, 452)

TWOPI == 2 * PI

RECURSIVE ISqrtBetween(_, _, _)
\* the largest r in lo..hi with r * r <= n
ISqrtBetween(n, lo, hi) ==
    IF lo >= hi THEN lo
    ELSE LET mid == (lo + hi + 1) \div 2
         IN IF mid * mid <= n THEN ISqrtBetween(n, mid, hi)
            ELSE ISqrtBetween(n, lo, mid - 1)

ISqrt(n) == ISqrtBetween(n, 0, 46340)

FNeg(a) ==
    IF IsNaN(a) THEN NaN
    ELSE IF a = PosInf THEN NegInf
    ELSE IF a = NegInf THEN PosInf
    ELSE 0 - a

FAdd(a, b) ==
    IF IsNaN(a) \/ IsNaN(b) THEN NaN
    ELSE IF ~IsNum(a) /\ ~IsNum(b) THEN (IF a = b THEN a ELSE NaN)
    ELSE IF ~IsNum(a) THEN a
    ELSE IF ~IsNum(b) THEN b
    ELSE a + b

FSub(a, b) == FAdd(a, FNeg(b))

FMul(a, b) ==
    IF IsNaN(a) \/ IsNaN(b) THEN NaN
    ELSE IF ~IsNum(a) \/ ~IsNum(b) THEN
        (IF a = 0 \/ b = 0 THEN NaN
         ELSE IF (a > 0) = (b > 0) THEN PosInf ELSE NegInf)
    ELSE RDiv(a * b, SCALE)

\* a / b on the grid for a >= 0 and b > 0, by long division so that no
\* intermediate product leaves the machine integers
DivPos(a, b) ==
    (a \div b) * SCALE
      + (((a % b) * 100) \div b) * 100
      + RDiv((((a % b) * 100) % b) * 100, b)

\* numpy true division: 0/0 is nan and x/0 is +-inf (a warning, not an error)
FDiv(a, b) ==
    IF IsNaN(a) \/ IsNaN(b) THEN NaN
    ELSE IF ~IsNum(a) THEN (IF ~IsNum(b) THEN NaN
                            ELSE IF (a > 0) = (b >= 0) THEN PosInf ELSE NegInf)
    ELSE IF ~IsNum(b) THEN 0
    ELSE IF b = 0 THEN (IF a = 0 THEN NaN ELSE IF a > 0 THEN PosInf ELSE NegInf)
    ELSE IF (a >= 0) = (b > 0) THEN DivPos(Abs(a), Abs(b))
    ELSE 0 - DivPos(Abs(a), Abs(b))

FSqrt(a) ==
    IF IsNaN(a) \/ a = NegInf THEN NaN
    ELSE IF a = PosInf THEN PosInf
    ELSE IF a < 0 THEN NaN
    ELSE LET n == a * SCALE
             r == ISqrt(n)
         IN IF n - r * r > r THEN r + 1 ELSE r

\* the angle x reduced to (-pi, pi]
WrapPi(x) ==
    LET m == ((x + PI) % TWOPI) - PI
    IN IF m = 0 - PI THEN PI ELSE m

\* sin on [-pi/2, pi/2]: the Taylor polynomial of degree 11, in Horner form
SinReduced(x) ==
    LET x2 == RDiv(x * x, SCALE)
        t5 == SCALE - RDiv(x2 * SCALE, 110 * SCALE)
        t4 == SCALE - RDiv(x2 * t5, 72 * SCALE)
        t3 == SCALE - RDiv(x2 * t4, 42 * SCALE)
        t2 == SCALE - RDiv(x2 * t3, 20 * SCALE)
        t1 == SCALE - RDiv(x2 * t2, 6 * SCALE)
    IN RDiv(x * t1, SCALE)

\* cos on [-pi/2, pi/2]: the Taylor polynomial of degree 12, in Horner form
CosReduced(x) ==
    LET x2 == RDiv(x * x, SCALE)
        t6 == SCALE - RDiv(x2 * SCALE, 132 * SCALE)
        t5 == SCALE - RDiv(x2 * t6, 90 * SCALE)
        t4 == SCALE - RDiv(x2 * t5, 56 * SCALE)
        t3 == SCALE - RDiv(x2 * t4, 30 * SCALE)
        t2 == SCALE - RDiv(x2 * t3, 12 * SCALE)
    IN SCALE - RDiv(x2 * t2, 2 * SCALE)

\* w in (-pi, pi] folded into [-pi/2, pi/2]: sin(w) = sin(Fold(w)), cos(w) = +-cos(Fold(w))
Fold(w) ==
    IF w > HALFPI THEN PI - w
    ELSE IF w < 0 - HALFPI THEN (0 - PI) - w
    ELSE w

SinWrapped(w) == SinReduced(Fold(w))

CosWrapped(w) == IF Abs(w) > HALFPI THEN 0 - CosReduced(Fold(w)) ELSE CosReduced(Fold(w))

FSin(x) == IF ~IsNum(x) THEN NaN ELSE SinWrapped(WrapPi(x))

FCos(x) == IF ~IsNum(x) THEN NaN ELSE CosWrapped(WrapPi(x))

\* arctan for |u| <= tan(pi/8): the Taylor polynomial of degree 13
AtanSmall(u) ==
    LET u2 == RDiv(u * u, SCALE)
        t6 == RDiv(SCALE, 13)
        t5 == RDiv(SCALE, 11) - RDiv(u2 * t6, SCALE)
        t4 == RDiv(SCALE, 9) - RDiv(u2 * t5, SCALE)
        t3 == RDiv(SCALE, 7) - RDiv(u2 * t4, SCALE)
        t2 == RDiv(SCALE, 5) - RDiv(u2 * t3, SCALE)
        t1 == RDiv(SCALE, 3) - RDiv(u2 * t2, SCALE)
        t0 == SCALE - RDiv(u2 * t1, SCALE)
    IN RDiv(u * t0, SCALE)

\* arctan of q in [0, 1]: arctan(q) = pi/4 + arctan((q - 1) / (q + 1)) above tan(pi/8)
Atan01(q) ==
    (IF 10000 * q > 4142 * SCALE THEN QUARTERPI ELSE 0)
      + AtanSmall(IF 10000 * q > 4142 * SCALE
                  THEN RDiv((q - SCALE) * SCALE, q + SCALE)
                  ELSE q)

\* arctan(y / x) for y >= 0, x >= 0, not both 0
OctantAngle(a, y, x) == IF y <= x THEN a ELSE HALFPI - a

AtanQuadrant(y, x) ==
    OctantAngle(Atan01(IF y <= x THEN RDiv(y * SCALE, x) ELSE RDiv(x * SCALE, y)), y, x)

\* the first-quadrant angle a = arctan(|y| / |x|) moved to the quadrant of (x, y)
ToQuadrant(a, y, x) ==
    IF x >= 0 /\ y >= 0 THEN a
    ELSE IF x < 0 /\ y >= 0 THEN PI - a
    ELSE IF x >= 0 THEN 0 - a
    ELSE 0 - (PI - a)

\* numpy.arctan2 (finite arguments): the result is in (-pi, pi]; arctan2(0, 0) = 0
FArctan2(y, x) ==
    IF IsNaN(y) \/ IsNaN(x) THEN NaN
    ELSE IF x = 0 /\ y = 0 THEN 0
    ELSE ToQuadrant(AtanQuadrant(Abs(y), Abs(x)), y, x)

\* sqrt(1 - v * v) for |v| <= 1
CoFactor(v) == FSqrt(RDiv((SCALE - v) * (SCALE + v), SCALE))

\* numpy.arccos: nan outside [-1, 1] (a warning, not an error)
FArccos(v) ==
    IF ~IsNum(v) THEN NaN
    ELSE IF Abs(v) > SCALE THEN NaN
    ELSE FArctan2(CoFactor(v), v)

\* numpy.arcsin: nan outside [-1, 1]
FArcsin(v) ==
    IF ~IsNum(v) THEN NaN
    ELSE IF Abs(v) > SCALE THEN NaN
    ELSE FArctan2(v, CoFactor(v))

\* numpy.deg2rad: x * (pi / 180), with pi / 180 = 71 / 4068 to nine digits
\* (the quotient and the remainder by 4068 are scaled apart, so that the
\* product stays within the machine integers)
Deg2rad(x) ==
    IF ~IsNum(x) THEN x
    ELSE LET a == Abs(x)
             m == (a \div 4068) * 71 + RDiv((a % 4068) * 71, 4068)
         IN IF x < 0 THEN 0 - m ELSE m

\* numpy.rad2deg: x * (180 / pi), with 180 / pi = 4068 / 71 = 57 + 21 / 71
Rad2deg(x) ==
    IF ~IsNum(x) THEN x
    ELSE LET a == Abs(x)
             m == a * 57 + (a \div 71) * 21 + RDiv((a % 71) * 21, 71)
         IN IF x < 0 THEN 0 - m ELSE m

\* ------------------------------------------------------------------------
\* numpy arrays: shape (width,) when ndim = 1, (N, width) when ndim = 2
\* ------------------------------------------------------------------------

Arr(ndim, width, rows) == [ndim |-> ndim, width |-> width, rows |-> rows]

\* numpy.linalg.norm(v, axis=-1): sqrt(add.reduce(v * v)), every step rounded
RECURSIVE SumSquares(_, _)
SumSquares(row, n) ==
    IF n = 0 THEN 0 ELSE FAdd(SumSquares(row, n - 1), FMul(row[n], row[n]))

Norm(row) == FSqrt(SumSquares(row, Len(row)))

\* the local name bound to the caller's own array, as numpy.asarray would
NumpyAsarrayObj == "arg"

\* The object a function's local name is bound to after
\* numpy.array(argument, dtype='float64'): a new array "a" holding a copy.
NumpyArrayObj == "a"

\* the heap once numpy.array has run: the caller's array and the copy
HeapAfterCast(arg) == [arg |-> arg, a |-> arg]

\* numpy.empty(arr.shape) of a flattened view: always two-dimensional
EmptyAtLeast2d(arr) == [ndim |-> 2, width |-> arr.width, nrows |-> Len(arr.rows)]

\* the shape numpy.empty(arr.shape) and arr.copy() allocate
ShapeOf(arr) == [ndim |-> arr.ndim, width |-> arr.width, nrows |-> Len(arr.rows)]

\* the array of shape sh once its rows have been assigned
Filled(sh, rows) == Arr(sh.ndim, sh.width, [i \in 1..sh.nrows |-> rows[i]])

\* ------------------------------------------------------------------------
\* plotting/spherical.py
\* ------------------------------------------------------------------------

\* row with the components from index `from` on converted to degrees when degrees holds
DegreesFrom(row, from, degrees) ==
    [j \in 1..Len(row) |-> IF degrees /\ j >= from THEN Rad2deg(row[j]) ELSE row[j]]

\* row with the components from index `from` on converted to radians when radians holds
RadiansFrom(row, from, radians) ==
    [j \in 1..Len(row) |-> IF radians /\ j >= from THEN Deg2rad(row[j]) ELSE row[j]]

\* azimuth taken from the computed radius instead of x
SphericalOfRadiusAzimuth(c, r) == <<r, FArctan2(c[2], r), FArccos(FDiv(c[3], r))>>

\* the polar angle forced to 0 where the radius is 0
SphericalOfGuarded(c, r) ==
    <<r, FArctan2(c[2], c[1]), IF r = 0 THEN 0 ELSE FArccos(FDiv(c[3], r))>>

\* (r, arctan2(y, x), arccos(z / r)) for the vector c of norm r
SphericalOf(c, r) == <<r, FArctan2(c[2], c[1]), FArccos(FDiv(c[3], r))>>

\* the unit conversion applied to the whole row, radius included
Cart2sphRowDegAll(c, degrees) == DegreesFrom(SphericalOf(c, Norm(c)), 1, degrees)

\* one row of cart2sph
Cart2sphRow(c, degrees) == DegreesFrom(SphericalOf(c, Norm(c)), 2, degrees)

cart2sph(arg, degrees) ==
    LET h == HeapAfterCast(arg)
        src == h[NumpyArrayObj]
        out == Filled(ShapeOf(src), [i \in 1..Len(src.rows) |-> Cart2sphRow(src.rows[i], degrees)])
    IN [arg |-> h.arg, out |-> out]

\* one row of the cartesian formula of sph2cart (angles in radians)
Sph2cartRow(s) ==
    << FMul(FMul(s[1], FCos(s[2])), FSin(s[3])),
       FMul(FMul(s[1], FSin(s[2])), FSin(s[3])),
       FMul(s[1], FCos(s[3])) >>

sph2cart(arg, degrees) ==
    LET h0 == HeapAfterCast(arg)
        obj == NumpyArrayObj
        \* the unit conversion is written into the array the local name is bound to
        h == [h0 EXCEPT ![obj].rows =
                 [i \in 1..Len(h0[obj].rows) |-> RadiansFrom(h0[obj].rows[i], 2, degrees)]]
        src == h[obj]
        out == Filled(ShapeOf(src), [i \in 1..Len(src.rows) |-> Sph2cartRow(src.rows[i])])
    IN [arg |-> h.arg, out |-> out]

\* row with its last component c replaced by 90 - c
FlipLast(row) == [row EXCEPT ![Len(row)] = FSub(90 * SCALE, row[Len(row)])]

\* the unit conversion applied to the whole row, a leading radius included
Geo2sphRowConvertAll(g, degrees) == RadiansFrom(FlipLast(g), 1, ~degrees)

\* the unit conversion done when degrees is true instead of false
Geo2sphRowFlagInverted(g, degrees) == RadiansFrom(FlipLast(g), Len(g) - 1, degrees)

\* one row of geo2sph
Geo2sphRow(g, degrees) == RadiansFrom(FlipLast(g), Len(g) - 1, ~degrees)

geo2sph(arg, degrees) ==
    LET h == HeapAfterCast(arg)
        src == h[NumpyArrayObj]
        \* the writes go to src.copy(), a third array
        out == Filled(ShapeOf(src), [i \in 1..Len(src.rows) |-> Geo2sphRow(src.rows[i], degrees)])
    IN [arg |-> h.arg, out |-> out]

\* one row of sph2geo
Sph2geoRow(s, degrees) == FlipLast(DegreesFrom(s, Len(s) - 1, ~degrees))

sph2geo(arg, degrees) ==
    LET h == HeapAfterCast(arg)
        src == h[NumpyArrayObj]
        out == Filled(ShapeOf(src), [i \in 1..Len(src.rows) |-> Sph2geoRow(src.rows[i], degrees)])
    IN [arg |-> h.arg, out |-> out]

\* one row of cart2polar
Cart2polarRow(c, degrees) == DegreesFrom(<<Norm(c), FArctan2(c[2], c[1])>>, 2, degrees)

cart2polar(arg, degrees) ==
    LET h == HeapAfterCast(arg)
        src == h[NumpyArrayObj]
        out == Filled(ShapeOf(src), [i \in 1..Len(src.rows) |-> Cart2polarRow(src.rows[i], degrees)])
    IN [arg |-> h.arg, out |-> out]

\* the transform named op
Transform(op, arg, degrees) ==
    CASE op = "cart2sph" -> cart2sph(arg, degrees)
      [] op = "sph2cart" -> sph2cart(arg, degrees)
      [] op = "geo2sph" -> geo2sph(arg, degrees)
      [] op = "sph2geo" -> sph2geo(arg, degrees)
      [] op = "cart2polar" -> cart2polar(arg, degrees)

\* the coordinate systems great_circle_distance accepts
ValidSystems == {"spherical", "cartesian"}

\* The sphere_radius argument: [kind |-> "default"] is the default False, and
\* "scalar", "ndarray" and "list" carry their values in vals.
DefaultRadius == [kind |-> "default", vals |-> <<>>]

\* bool(sphere_radius) is an error: an ndarray of more than one element
TruthAmbiguous(sr) == sr.kind = "ndarray" /\ Len(sr.vals) > 1

\* `not sphere_radius`, where it has a value
NotRadius(sr) ==
    CASE sr.kind = "default" -> TRUE
      [] sr.kind = "scalar" -> sr.vals[1] = 0
      [] sr.kind = "ndarray" -> sr.vals[1] = 0
      [] sr.kind = "list" -> Len(sr.vals) = 0

\* the radius row i is scaled by once `if not sphere_radius` has run
RadiusOf(s1, s2, sr, i) ==
    IF NotRadius(sr) THEN s1.rows[i][1]
    ELSE IF Len(sr.vals) = 1 THEN sr.vals[1]
    ELSE sr.vals[i]

\* the product of sines taken from the first point alone
CentralAngleOneSided(p1, p2) ==
    FArcsin(FSqrt(FAdd(
        FDiv(FSub(SCALE, FCos(FSub(p2[3], p1[3]))), 2 * SCALE),
        FMul(FMul(FSin(p1[3]), FSin(p1[3])),
             FDiv(FSub(SCALE, FCos(FSub(p2[2], p1[2]))), 2 * SCALE)))))

\* the first term taken from the azimuths and the second from the polar angles
CentralAngleSwapped(p1, p2) ==
    FArcsin(FSqrt(FAdd(
        FDiv(FSub(SCALE, FCos(FSub(p2[2], p1[2]))), 2 * SCALE),
        FMul(FMul(FSin(p1[2]), FSin(p2[2])),
             FDiv(FSub(SCALE, FCos(FSub(p2[3], p1[3]))), 2 * SCALE)))))

\* arcsin(sqrt(...)) of the haversine formula: theta is component 2 (index 3
\* here), phi is component 1 (index 2 here)
CentralAngle(p1, p2) ==
    FArcsin(FSqrt(FAdd(
        FDiv(FSub(SCALE, FCos(FSub(p2[3], p1[3]))), 2 * SCALE),
        FMul(FMul(FSin(p1[3]), FSin(p2[3])),
             FDiv(FSub(SCALE, FCos(FSub(p2[2], p1[2]))), 2 * SCALE)))))

\* the assert is skipped
AssertSkipped(coordinate_system) == TRUE

\* assert coordinate_system in ['spherical', 'cartesian']
AssertPasses(coordinate_system) == coordinate_system \in ValidSystems

\* the two arrays in spherical form
ToSpherical(arr, coordinate_system) ==
    IF coordinate_system = "cartesian" THEN cart2sph(arr, FALSE).out ELSE arr

\* the distances of the rows of the spherical arrays s1 and s2
Distances(s1, s2, sr) ==
    [i \in 1..Len(s1.rows) |->
        FMul(FMul(2 * SCALE, RadiusOf(s1, s2, sr, i)), CentralAngle(s1.rows[i], s2.rows[i]))]

\* What a call raises, or "none".  A list that is kept as the radius cannot
\* be multiplied by 2.0.
Raised(coordinate_system, sr) ==
    IF ~AssertPasses(coordinate_system) THEN "AssertionError"
    ELSE IF TruthAmbiguous(sr) THEN "ValueError"
    ELSE IF sr.kind = "list" /\ ~NotRadius(sr) THEN "TypeError"
    ELSE "none"

great_circle_distance(array_1, array_2, coordinate_system, sphere_radius) ==
    [ raised |-> Raised(coordinate_system, sphere_radius),
      out |-> IF Raised(coordinate_system, sphere_radius) = "none"
              THEN Distances(ToSpherical(array_1, coordinate_system),
                             ToSpherical(array_2, coordinate_system), sphere_radius)
              ELSE <<>> ]

\* ------------------------------------------------------------------------
\* plotting/xsection.py: fill_great_circle, with numpy.linspace, numpy.unwrap
\* and scipy.spatial.geometric_slerp as their documentation describes them
\* ------------------------------------------------------------------------

\* numpy.dot of two 3-vectors
Dot(a, b) == FAdd(FAdd(FMul(a[1], b[1]), FMul(a[2], b[2])), FMul(a[3], b[3]))

\* the greatest integer n with n <= q / SCALE
Floor(q) == q \div SCALE

\* the least integer n with n >= q / SCALE
Ceil(q) == 0 - ((0 - q) \div SCALE)

\* numpy.linspace(0, 1, n): n samples, the last one exactly 1 (n >= 2)
Linspace01(n) ==
    [k \in 1..n |->
        IF n > 1 /\ k = n THEN SCALE
        ELSE IF n = 1 THEN 0
        ELSE FMul((k - 1) * SCALE, FDiv(SCALE, (n - 1) * SCALE))]

\* v scaled to unit length
Normalized(v) == [j \in 1..Len(v) |-> FDiv(v[j], Norm(v))]

\* the part of b orthogonal to a
Orthogonal(a, b) == [j \in 1..Len(b) |-> FSub(b[j], FMul(Dot(a, b), a[j]))]

\* the point at angle w from e0 towards e1 (orthonormal)
Rotate(e0, e1, w) == [j \in 1..Len(e0) |-> FAdd(FMul(e0[j], FCos(w)), FMul(e1[j], FSin(w)))]

\* the angle from start to end: arctan2(sin, cos)
Omega(start, end) == FArctan2(Norm(Orthogonal(start, end)), Dot(start, end))

\* geometric_slerp(start, end, t): one row per element of t; for equal
\* endpoints, copies of start
geometric_slerp(start, end, t) ==
    Arr(2, Len(start),
        [k \in 1..Len(t) |->
            IF start = end THEN start
            ELSE Rotate(Normalized(start), Normalized(Orthogonal(start, end)),
                        FMul(t[k], Omega(start, end)))])

\* the correction numpy.unwrap adds from a sample on, given the step dd to it
PhaseCorrection(dd) ==
    IF ~IsNum(dd) THEN dd
    ELSE IF Abs(dd) < 180 * SCALE THEN 0
    ELSE IF ((dd + 180 * SCALE) % (360 * SCALE)) = 0 /\ dd > 0 THEN 180 * SCALE - dd
    ELSE (((dd + 180 * SCALE) % (360 * SCALE)) - 180 * SCALE) - dd

RECURSIVE CorrectionSum(_, _, _)
\* the sum of the corrections of the steps to the samples lo..hi (a cumsum
\* entry; the range is halved to keep the evaluation shallow)
CorrectionSum(p, lo, hi) ==
    IF lo > hi THEN 0
    ELSE IF lo = hi THEN PhaseCorrection(FSub(p[lo], p[lo - 1]))
    ELSE FAdd(CorrectionSum(p, lo, (lo + hi) \div 2),
              CorrectionSum(p, ((lo + hi) \div 2) + 1, hi))

\* the sequence left as it is
UnwrapSkipped(p) == p

\* numpy.unwrap(p, period=360)
Unwrap(p) == [k \in 1..Len(p) |-> FAdd(p[k], CorrectionSum(p, 2, k))]

\* the rows of arr with their first component dropped (arr[:, 1:])
DropFirst(arr) ==
    Arr(arr.ndim, arr.width - 1,
        [i \in 1..Len(arr.rows) |-> [j \in 1..(arr.width - 1) |-> arr.rows[i][j + 1]]])

\* column c of arr
Column(arr, c) == [i \in 1..Len(arr.rows) |-> arr.rows[i][c]]

\* arr with column c replaced by col
WithColumn(arr, c, col) ==
    [arr EXCEPT !.rows = [i \in 1..Len(arr.rows) |-> [arr.rows[i] EXCEPT ![c] = col[i]]]]

\* the unit vectors of g0 and g1: radius 1 attached, then geo2sph and sph2cart
UnitVectors(g0, g1) ==
    sph2cart(geo2sph(Arr(2, 3, << <<SCALE>> \o g0, <<SCALE>> \o g1 >>), FALSE).out, FALSE).out.rows

\* the angle between the unit vectors c0 and c1, in degrees
AngleBetween(c) == Rad2deg(FArccos(Dot(c[1], c[2])))

\* int(numpy.ceil(angle / res))
NPts(angle, res) == Ceil(FDiv(angle, res))

\* the geographic points at the parameters t of the great circle from c[1]
\* to c[2]: geometric_slerp, cart2sph, sph2geo without the radii
ProfileAt(c, t) ==
    sph2geo(DropFirst(cart2sph(geometric_slerp(c[1], c[2], t), FALSE).out), FALSE).out

\* the geographic profile along the great circle, before the unwrapping
Profile(c, n_pts) == ProfileAt(c, Linspace01(n_pts))

\* the profile with its longitudes unwrapped
Unwrapped(g_profile) == WithColumn(g_profile, 1, Unwrap(Column(g_profile, 1)))

\* what fill_great_circle does once the angle is known: int() of nan raises
FillFrom(c, angle, res) ==
    IF ~IsNum(angle)
    THEN [raised |-> "ValueError", angle |-> angle, n_pts |-> 0,
          raw |-> Arr(2, 2, <<>>), path |-> Arr(2, 2, <<>>)]
    ELSE [raised |-> "none", angle |-> angle, n_pts |-> NPts(angle, res),
          raw |-> Profile(c, NPts(angle, res)),
          path |-> Unwrapped(Profile(c, NPts(angle, res)))]

fill_great_circle(g0, g1, res) ==
    FillFrom(UnitVectors(g0, g1), AngleBetween(UnitVectors(g0, g1)), res)

\* ------------------------------------------------------------------------
\* The caller: one array, passed through at most MaxCalls transforms, each
\* applied to the result of the one before
\* ------------------------------------------------------------------------

MaxCalls == 2

MaxRows == 2

U == SCALE

\* cartesian 3-vectors: the origin, the axes, vectors so small that their
\* squares round to zero, and general points
CartPoints ==
    { <<0, 0, 0>>, <<U, 0, 0>>, <<0, 0, U>>, <<0 - U, 0, 0>>, <<0, 0, 0 - 2 * U>>,
      <<U \div 2, 0 - (U \div 2), U>>, <<0 - 3000, 4000, 0>>, <<6000, 0, 8000>>,
      <<200, 0, 0>>, <<1, 0, 0>>, <<0, 0, 3>> }

CartBatchPoints == { <<0, 0, 0>>, <<0 - 3000, 4000, 0>>, <<1, 0, 0>> }

\* planar cartesian 2-vectors
XYPoints == { <<0, 0>>, <<U, 0>>, <<0 - U, U>>, <<3000, 0 - 4000>> }

\* spherical 3-vectors (r, azimuth, polar angle), in radians
SphPoints ==
    { <<U, 0, HALFPI>>, <<U, HALFPI, HALFPI>>, <<2 * U, HALFPI, HALFPI>>,
      <<U, PI, QUARTERPI>>, <<2 * U, 0 - QUARTERPI, 10000>> }

SphBatchPoints == { <<U, 0, HALFPI>>, <<2 * U, HALFPI, HALFPI>> }

\* geographic 2-vectors (lon, lat), in degrees
GeoPoints2 ==
    { <<179 * U, 0>>, <<(0 - 179) * U, 0>>, <<0, 0>>, <<(0 - 127) * U, 45 * U>>,
      <<160 * U, 30 * U>>, <<(0 - 160) * U, 40 * U>>, <<142 * U, (0 - 26) * U>>,
      <<1001, 899999>> }

\* geographic 3-vectors (r, lon, lat), in degrees
GeoPoints3 == { <<U, 0, 0>>, <<2 * U, (0 - 127) * U, 45 * U>>, <<U, 90 * U, (0 - 90) * U>> }

GeoBatchPoints == { <<179 * U, 0>>, <<(0 - 127) * U, 45 * U>> }

\* the arrays of shape (w,) over pts and of shape (N, w), N in 1..MaxRows, over bpts
Arrays(w, pts, bpts) ==
    { Arr(1, w, <<p>>) : p \in pts }
      \cup UNION { { Arr(2, w, rows) : rows \in [1..n -> bpts] } : n \in 1..MaxRows }

Inputs ==
    { [kind |-> "cart", arr |-> a] : a \in Arrays(3, CartPoints, CartBatchPoints) }
      \cup { [kind |-> "xy", arr |-> a] : a \in Arrays(2, XYPoints, XYPoints) }
      \cup { [kind |-> "sph", arr |-> a] : a \in Arrays(3, SphPoints, SphBatchPoints) }
      \cup { [kind |-> "geo", arr |-> a] : a \in Arrays(2, GeoPoints2, GeoBatchPoints) }
      \cup { [kind |-> "geo", arr |-> a] : a \in Arrays(3, GeoPoints3, GeoPoints3) }

\* the second array of a distance call: the shape and system of the first
Partners(k, arr) ==
    { a \in (IF k = "cart" THEN Arrays(3, CartPoints, CartBatchPoints)
             ELSE Arrays(3, SphPoints, SphBatchPoints)) :
        a.ndim = arr.ndim /\ Len(a.rows) = Len(arr.rows) }

\* the coordinate_system arguments tried: the array's own system and one
\* that is neither
SystemsFor(k) == { IF k = "cart" THEN "cartesian" ELSE "spherical", "geographic" }

\* the sphere_radius arguments tried for arrays of n points
RadiiFor(n) ==
    { DefaultRadius,
      [kind |-> "scalar", vals |-> <<3 * U>>],
      [kind |-> "scalar", vals |-> <<0>>],
      [kind |-> "ndarray", vals |-> [i \in 1..n |-> (i + 2) * U]],
      [kind |-> "list", vals |-> [i \in 1..n |-> (i + 2) * U]] }

\* the resolutions tried, in degrees: the default 1, and 10
Resolutions == { U, 10 * U }

VARIABLES
    input,      \* the array the caller starts with
    kind,       \* what cur holds: "cart", "xy", "sph", "geo" or "polar"
    cur,        \* the caller's current array: input, or the last call's result
    calls,      \* the transforms called so far: <<[op, degrees], ...>>
    argBefore,  \* the array passed to the last call, as it was before the call
    argAfter,   \* the same array object after the call
    dist,       \* the call great_circle_distance(input, a2, cs, sr), once made
    path        \* the call fill_great_circle(input, g1, res), once made

vars == <<input, kind, cur, calls, argBefore, argAfter, dist, path>>

NoDistance(arr) ==
    [called |-> FALSE, a2 |-> arr, cs |-> "spherical", sr |-> DefaultRadius,
     raised |-> "none", out |-> <<>>]

\* the script's test before it builds the profile: the dataset's longitudes
\* are converted when this holds
ScriptConverts(g0, g1) == Abs(g1[1] - g0[1]) > PI

NoPath ==
    [called |-> FALSE, g1 |-> <<0, 0>>, res |-> U, raised |-> "none", angle |-> 0,
     n_pts |-> 0, raw |-> Arr(2, 2, <<>>), path |-> Arr(2, 2, <<>>),
     converted |-> FALSE]

Init ==
    /\ \E i \in Inputs :
        /\ input = i.arr
        /\ kind = i.kind
        /\ cur = i.arr
        /\ argBefore = i.arr
        /\ argAfter = i.arr
        /\ dist = NoDistance(i.arr)
    /\ calls = <<>>
    /\ path = NoPath

\* nothing has been called yet
Fresh == calls = <<>> /\ ~dist.called /\ ~path.called

\* the caller has run op with the flag degrees, which returned r, and keeps the result
Call(op, degrees, r, newkind) ==
    /\ Len(calls) < MaxCalls
    /\ ~dist.called
    /\ ~path.called
    /\ cur' = r.out
    /\ argBefore' = cur
    /\ argAfter' = r.arg
    /\ calls' = Append(calls, [op |-> op, degrees |-> degrees])
    /\ kind' = newkind
    /\ UNCHANGED <<input, dist, path>>

CallCart2sph ==
    /\ kind = "cart"
    /\ \E degrees \in BOOLEAN : Call("cart2sph", degrees, cart2sph(cur, degrees), "sph")

CallSph2cart ==
    /\ kind = "sph"
    /\ cur.width = 3
    /\ \E degrees \in BOOLEAN : Call("sph2cart", degrees, sph2cart(cur, degrees), "cart")

CallGeo2sph ==
    /\ kind = "geo"
    /\ \E degrees \in BOOLEAN : Call("geo2sph", degrees, geo2sph(cur, degrees), "sph")

CallSph2geo ==
    /\ kind = "sph"
    /\ \E degrees \in BOOLEAN : Call("sph2geo", degrees, sph2geo(cur, degrees), "geo")

CallCart2polar ==
    /\ kind = "xy"
    /\ \E degrees \in BOOLEAN : Call("cart2polar", degrees, cart2polar(cur, degrees), "polar")

\* the caller has run great_circle_distance(input, a2, cs, sr), which ended as r
Distance(a2, cs, sr, r) ==
    /\ dist' = [called |-> TRUE, a2 |-> a2, cs |-> cs, sr |-> sr,
                raised |-> r.raised, out |-> r.out]
    /\ UNCHANGED <<input, kind, cur, calls, argBefore, argAfter, path>>

CallGreatCircleDistance ==
    /\ Fresh
    /\ kind \in {"cart", "sph"}
    /\ \E a2 \in Partners(kind, input), cs \in SystemsFor(kind), sr \in RadiiFor(Len(input.rows)) :
        Distance(a2, cs, sr, great_circle_distance(input, a2, cs, sr))

\* the script has made its antimeridian test on g0 = input and g1, and has
\* run fill_great_circle(input, g1, res, return_angle=True), which ended as r
Fill(g1, res, r) ==
    /\ path' = [called |-> TRUE, g1 |-> g1, res |-> res, raised |-> r.raised,
                angle |-> r.angle, n_pts |-> r.n_pts, raw |-> r.raw, path |-> r.path,
                converted |-> ScriptConverts(input.rows[1], g1)]
    /\ UNCHANGED <<input, kind, cur, calls, argBefore, argAfter, dist>>

CallFillGreatCircle ==
    /\ Fresh
    /\ kind = "geo"
    /\ input.ndim = 1
    /\ input.width = 2
    /\ \E g1 \in GeoPoints2, res \in Resolutions :
        Fill(g1, res, fill_great_circle(input.rows[1], g1, res))

Next ==
    \/ CallCart2sph
    \/ CallSph2cart
    \/ CallGeo2sph
    \/ CallSph2geo
    \/ CallCart2polar
    \/ CallGreatCircleDistance
    \/ CallFillGreatCircle

Spec == Init /\ [][Next]_vars

\* ------------------------------------------------------------------------
\* Properties
\* ------------------------------------------------------------------------

\* the largest rounding error accepted in an angle that went through a
\* conversion to radians and back, in units of 1 / SCALE degrees
GeoTol == 30

\* the largest rounding error accepted in a cartesian component that went
\* through cart2sph and sph2cart, in units of 1 / SCALE
CartTol == 5

Near(a, b, tol) == IsNum(a) /\ IsNum(b) /\ Abs(a - b) <= tol

SameShape(a, b) == a.ndim = b.ndim /\ a.width = b.width /\ Len(a.rows) = Len(b.rows)

\* every component of a is within tol of the same component of b
NearArrays(a, b, tol) ==
    /\ SameShape(a, b)
    /\ \A i \in 1..Len(a.rows) : \A j \in 1..a.width : Near(a.rows[i][j], b.rows[i][j], tol)

\* the calls made are exactly op1 and then op2, with the same degrees flag
RoundTrip(op1, op2) ==
    /\ Len(calls) = 2
    /\ calls[1].op = op1
    /\ calls[2].op = op2
    /\ calls[1].degrees = calls[2].degrees

LastCall == calls[Len(calls)]

\* C1 (as stated): sph2geo with the same flag is the exact inverse of
\* geo2sph: sph2geo(geo2sph(g, degrees), degrees) returns g itself.
C1_ExactInverse == RoundTrip("geo2sph", "sph2geo") => cur = input

\* C1 (amended): sph2geo(geo2sph(g, degrees), degrees) has the shape of g,
\* returns the radius of a 3-vector unchanged, and returns longitude and
\* latitude within rounding tolerance of g's, for both values of the flag.
C1_RoundTripWithinTolerance ==
    RoundTrip("geo2sph", "sph2geo") =>
        /\ NearArrays(cur, input, GeoTol)
        /\ \A i \in 1..Len(cur.rows) : cur.width = 3 => cur.rows[i][1] = input.rows[i][1]

\* C1 witness: a batch of 3-vectors went through geo2sph and sph2geo in
\* radians and came back changed by the rounding.
C1_Witness ==
    /\ RoundTrip("geo2sph", "sph2geo")
    /\ ~LastCall.degrees
    /\ cur.ndim = 2
    /\ cur.width = 3
    /\ cur # input

SwappedDistance == great_circle_distance(dist.a2, input, dist.cs, dist.sr)

\* the distance call returned a value
Returned == dist.called /\ dist.raised = "none"

\* the radii the two arrays carry once in spherical form are the same
SameRadii ==
    \A i \in 1..Len(input.rows) :
        ToSpherical(input, dist.cs).rows[i][1] = ToSpherical(dist.a2, dist.cs).rows[i][1]

\* C3 (as stated): great_circle_distance(a, b) = great_circle_distance(b, a)
\* for all points a and b, radial components equal or not, with no override.
C3_SymmetricForAll == (Returned /\ dist.sr = DefaultRadius) => dist.out = SwappedDistance.out

\* C3 (amended): great_circle_distance(a, b) and great_circle_distance(b, a)
\* return the same value (a number, or not-a-number in both orders)
\* whenever a and b have the same radial component, or a nonzero scalar
\* sphere_radius is passed to both calls.
C3_SymmetricOnOneShell ==
    (Returned /\ (SameRadii \/ ~NotRadius(dist.sr))) => dist.out = SwappedDistance.out

\* C3 witness: a nonzero distance between two different points of one shell.
C3_Witness ==
    /\ Returned
    /\ dist.sr = DefaultRadius
    /\ SameRadii
    /\ input # dist.a2
    /\ \E i \in 1..Len(dist.out) : IsNum(dist.out[i]) /\ dist.out[i] > 0

\* the array of shape (w,) holding row i of arr
RowAlone(arr, i) == Arr(1, arr.width, <<arr.rows[i]>>)

\* C4: every transform returns an array of exactly the shape of its input,
\* and row i of the output is what the transform returns for row i alone.
C4_ShapePreserved ==
    calls # <<>> =>
        /\ SameShape(cur, argBefore)
        /\ \A i \in 1..Len(cur.rows) :
            /\ Len(cur.rows[i]) = cur.width
            /\ cur.rows[i] =
                 Transform(LastCall.op, RowAlone(argBefore, i), LastCall.degrees).out.rows[1]

\* C4 witness: a transform has run on a batch of two different rows, and
\* another on a single vector of shape (3,).
C4_Witness ==
    /\ Len(calls) = 2
    /\ input.ndim = 2
    /\ Len(input.rows) = 2
    /\ input.rows[1] # input.rows[2]
    /\ cur.rows[1] # cur.rows[2]

\* C5: with a coordinate_system that is neither 'spherical' nor 'cartesian'
\* great_circle_distance raises before computing anything and returns no distance.
C5_InvalidSystemRaises ==
    (dist.called /\ dist.cs \notin ValidSystems) =>
        dist.raised = "AssertionError" /\ dist.out = <<>>

\* C5 witness: a call with an invalid coordinate_system, on arrays a valid
\* call would have measured.
C5_Witness ==
    /\ dist.called
    /\ dist.cs = "geographic"
    /\ dist.raised = "AssertionError"
    /\ input # dist.a2

\* the radius the caller supplied for row i
SuppliedRadius(i) == IF Len(dist.sr.vals) = 1 THEN dist.sr.vals[1] ELSE dist.sr.vals[i]

\* C6: the separation is scaled by the caller's sphere_radius whenever one
\* is supplied, a scalar or an array of N values, and by component 0 of the
\* first array only when none is supplied.
C6_ScaledBySuppliedRadius ==
    (dist.called /\ dist.cs \in ValidSystems) =>
        /\ dist.raised = "none"
        /\ \A i \in 1..Len(input.rows) :
            dist.out[i] =
                FMul(FMul(2 * SCALE,
                          IF dist.sr.kind = "default"
                          THEN ToSpherical(input, dist.cs).rows[i][1]
                          ELSE SuppliedRadius(i)),
                     CentralAngle(ToSpherical(input, dist.cs).rows[i],
                                  ToSpherical(dist.a2, dist.cs).rows[i]))

\* the transforms whose output has a radial component for this array
HasRadius(op, arr) ==
    \/ op = "cart2sph"
    \/ op = "cart2polar"
    \/ (op \in {"geo2sph", "sph2geo"} /\ arr.width = 3)

\* C7: the degrees flag never changes the radial component of cart2sph,
\* geo2sph, sph2geo or cart2polar, and the angles of cart2sph(v, TRUE) are
\* rad2deg of those of cart2sph(v, FALSE).
C7_FlagLeavesRadius ==
    (calls # <<>> /\ HasRadius(LastCall.op, argBefore)) =>
        \A i \in 1..Len(cur.rows) :
            /\ cur.rows[i][1] =
                 Transform(LastCall.op, argBefore, ~LastCall.degrees).out.rows[i][1]
            /\ (LastCall.op = "cart2sph" /\ LastCall.degrees) =>
                 \A j \in 2..3 :
                    cur.rows[i][j] = Rad2deg(cart2sph(argBefore, FALSE).out.rows[i][j])

\* C7 witness: cart2sph in degrees on a vector with a nonzero radius and
\* nonzero angles.
C7_Witness ==
    /\ calls # <<>>
    /\ LastCall.op = "cart2sph"
    /\ LastCall.degrees
    /\ \E i \in 1..Len(cur.rows) :
        /\ IsNum(cur.rows[i][3])
        /\ cur.rows[i][1] > 0
        /\ cur.rows[i][2] # 0
        /\ cur.rows[i][3] # 0

\* C8: after any transform the caller's array holds the values it held
\* before the call.
C8_ArgumentUnchanged == argAfter = argBefore

\* C8 witness: sph2cart in degrees, which converts nonzero angles in place
\* before it uses them.
C8_Witness ==
    /\ calls # <<>>
    /\ LastCall.op = "sph2cart"
    /\ LastCall.degrees
    /\ \E i \in 1..Len(argBefore.rows) :
        IsNum(argBefore.rows[i][2]) /\ argBefore.rows[i][2] # 0

\* cart2sph was the first call: cur is cart2sph(input)
AfterCart2sph == Len(calls) = 1 /\ calls[1].op = "cart2sph"

Origin == <<0, 0, 0>>

\* C9 (as stated): the not-a-number polar angle appears only in the rows
\* whose input is the origin.
C9_NaNOnlyAtOrigin ==
    AfterCart2sph =>
        \A i \in 1..Len(cur.rows) : IsNaN(cur.rows[i][3]) => input.rows[i] = Origin

\* C9 (amended): cart2sph returns radius 0 and a not-a-number polar angle
\* for the origin without raising; each row is computed from its own input
\* alone; and a not-a-number polar angle appears only where z / r is not a
\* number in [-1, 1]: at the origin, and for vectors so small that their
\* squared norm underflows (computed radius 0 or below |z|).
C9_NaNOnlyWhereQuotientUndefined ==
    AfterCart2sph =>
        \A i \in 1..Len(cur.rows) :
            /\ input.rows[i] = Origin => (cur.rows[i][1] = 0 /\ IsNaN(cur.rows[i][3]))
            /\ IsNaN(cur.rows[i][3]) =>
                 (cur.rows[i][1] = 0 \/ Abs(input.rows[i][3]) > cur.rows[i][1])
            /\ cur.rows[i] = cart2sph(RowAlone(input, i), calls[1].degrees).out.rows[1]
            /\ IsNum(cur.rows[i][1])
            /\ IsNum(cur.rows[i][2])

\* C9 witness: a batch with the origin in one row and an ordinary vector,
\* whose polar angle is a number, in the other.
C9_Witness ==
    /\ AfterCart2sph
    /\ input.ndim = 2
    /\ \E i, k \in 1..Len(cur.rows) :
        /\ input.rows[i] = Origin
        /\ IsNaN(cur.rows[i][3])
        /\ cur.rows[k][1] > 0
        /\ IsNum(cur.rows[k][3])

\* C10: no two consecutive samples of the path returned by
\* fill_great_circle have longitudes more than 180 degrees apart.
C10_NoLongitudeJump ==
    (path.called /\ path.raised = "none") =>
        \A k \in 1..(Len(path.path.rows) - 1) :
            /\ IsNum(path.path.rows[k][1])
            /\ IsNum(path.path.rows[k + 1][1])
            /\ Abs(path.path.rows[k + 1][1] - path.path.rows[k][1]) <= 180 * SCALE

\* C10 witness: a path of at least three samples whose great circle crosses
\* the antimeridian: before the unwrapping two consecutive longitudes are
\* more than 180 degrees apart.
C10_Witness ==
    /\ path.called
    /\ path.raised = "none"
    /\ Len(path.raw.rows) >= 3
    /\ \E k \in 1..(Len(path.raw.rows) - 1) :
        Abs(path.raw.rows[k + 1][1] - path.raw.rows[k][1]) > 180 * SCALE

\* fill_great_circle was called with g1 equal to g0
IdenticalEndpoints == path.called /\ path.g1 = input.rows[1]

\* the angle arccos returns for the largest dot product below 1, in degrees
NearZeroAngle == Rad2deg(FArccos(SCALE - 1))

\* C11 (as stated): fill_great_circle with identical endpoints completes
\* without raising and returns a zero (or near-zero) angular separation and
\* a path of at most one sample.
C11_IdenticalEndpointsComplete ==
    IdenticalEndpoints =>
        /\ path.raised = "none"
        /\ path.angle >= 0
        /\ path.angle <= NearZeroAngle
        /\ Len(path.path.rows) <= 1

\* C11 (what the code does when it completes): with identical endpoints a
\* call that returns gives an angle from 0 to the near-zero angle and a
\* path of n_pts samples, n_pts being 0 for angle 0 and 1 otherwise.
C11_DegenerateWhenReturned ==
    (IdenticalEndpoints /\ path.raised = "none") =>
        /\ path.angle >= 0
        /\ path.angle <= NearZeroAngle
        /\ Len(path.path.rows) = path.n_pts
        /\ path.n_pts = (IF path.angle = 0 THEN 0 ELSE 1)

\* C11 witness: identical endpoints whose unit vector has a dot product
\* with itself above 1: the angle is not a number and int() raises.
C11_Witness ==
    /\ IdenticalEndpoints
    /\ IsNaN(path.angle)
    /\ path.raised = "ValueError"

\* the largest rounding error accepted in a distance, in units of 1 / SCALE
DistTol == 2

\* (1 - cos(d)) / 2
Hav(d) == FDiv(FSub(SCALE, FCos(d)), 2 * SCALE)

\* the polar-angle haversine form for azimuths az1, az2 and polar angles
\* pol1, pol2: arcsin(sqrt(hav(pol2 - pol1) + sin(pol1) sin(pol2) hav(az2 - az1)))
PolarHaversine(az1, pol1, az2, pol2) ==
    FArcsin(FSqrt(FAdd(Hav(FSub(pol2, pol1)),
                       FMul(FMul(FSin(pol1), FSin(pol2)), Hav(FSub(az2, az1))))))

\* row i of the two arrays lies on the equator with azimuths 90 degrees apart
EquatorQuarter(i) ==
    /\ input.rows[i][3] = HALFPI
    /\ dist.a2.rows[i][3] = HALFPI
    /\ Abs(dist.a2.rows[i][2] - input.rows[i][2]) = HALFPI

\* C12: in spherical mode great_circle_distance is 2 R times the
\* polar-angle haversine form with the azimuth read from component 1 and the
\* polar angle from component 2 of each point; two points on the equator
\* whose azimuths differ by 90 degrees are at distance R * pi / 2.
C12_PolarAngleHaversine ==
    (Returned /\ dist.cs = "spherical") =>
        \A i \in 1..Len(input.rows) :
            /\ dist.out[i] =
                 FMul(FMul(2 * SCALE, RadiusOf(input, dist.a2, dist.sr, i)),
                      PolarHaversine(input.rows[i][2], input.rows[i][3],
                                     dist.a2.rows[i][2], dist.a2.rows[i][3]))
            /\ EquatorQuarter(i) =>
                 Near(dist.out[i],
                      FMul(RadiusOf(input, dist.a2, dist.sr, i), HALFPI), DistTol)

\* C12 witness: two points on the equator of radius 2 a quarter turn apart,
\* measured with no override.
C12_Witness ==
    /\ Returned
    /\ dist.cs = "spherical"
    /\ dist.sr = DefaultRadius
    /\ input.ndim = 1
    /\ input.rows[1][1] = 2 * SCALE
    /\ EquatorQuarter(1)
    /\ dist.out[1] > 0

\* the last call was geo2sph: cur is geo2sph(argBefore, LastCall.degrees)
AfterGeo2sph == calls # <<>> /\ LastCall.op = "geo2sph"

\* C13: geo2sph changes only the last two components of each point, for
\* 2-vectors and 3-vectors alike: the last becomes 90 minus the latitude,
\* taken in degrees, the second-to-last is the longitude carried through,
\* both are converted to radians exactly when degrees is false, and a
\* leading radius is returned unchanged.
C13_LastTwoComponents ==
    AfterGeo2sph =>
        \A i \in 1..Len(cur.rows) :
            LET g == argBefore.rows[i]
                w == Len(g)
            IN /\ Len(cur.rows[i]) = w
               /\ cur.rows[i][w] =
                    (IF LastCall.degrees THEN FSub(90 * SCALE, g[w])
                     ELSE Deg2rad(FSub(90 * SCALE, g[w])))
               /\ cur.rows[i][w - 1] =
                    (IF LastCall.degrees THEN g[w - 1] ELSE Deg2rad(g[w - 1]))
               /\ \A j \in 1..(w - 2) : cur.rows[i][j] = g[j]

\* C13 witness: geo2sph in radians on a 3-vector with a radius other than
\* 1 and nonzero longitude and latitude.
C13_Witness ==
    /\ AfterGeo2sph
    /\ ~LastCall.degrees
    /\ \E i \in 1..Len(cur.rows) :
        /\ Len(argBefore.rows[i]) = 3
        /\ argBefore.rows[i][1] = 2 * SCALE
        /\ argBefore.rows[i][2] # 0
        /\ argBefore.rows[i][3] # 0
        /\ cur.rows[i] # argBefore.rows[i]

\* fill_great_circle was called and returned a path
PathReturned == path.called /\ path.raised = "none"

\* parameter k of n evenly spaced parameters from 0 to 1: k - 1 steps of
\* 1 / (n - 1), the last one being 1 itself
Param(n, k) ==
    IF n = 1 THEN 0
    ELSE IF k = n THEN SCALE
    ELSE (k - 1) * FDiv(SCALE, (n - 1) * SCALE)

\* C14: the path has exactly n = ceil(A / res) samples (the least integer
\* not below the quotient), taken at n evenly spaced parameters from 0 to
\* 1, one row per parameter and in increasing parameter order.
C14_SampleCount ==
    PathReturned =>
        LET n == Len(path.path.rows)
            q == FDiv(path.angle, path.res)
            c == UnitVectors(input.rows[1], path.g1)
        IN /\ n * SCALE >= q
           /\ (n - 1) * SCALE < q \/ (n = 0 /\ q = 0)
           /\ n = path.n_pts
           /\ Len(path.raw.rows) = n
           /\ \A k \in 1..(n - 1) : Param(n, k) < Param(n, k + 1)
           /\ \A k \in 1..n :
                /\ path.raw.rows[k] = ProfileAt(c, <<Param(n, k)>>).rows[1]
                /\ path.path.rows[k][2] = path.raw.rows[k][2]
                /\ (path.path.rows[k][1] - path.raw.rows[k][1]) % (360 * SCALE) = 0

\* C14 witness: a path of more than two samples whose quotient A / res is
\* not an integer.
C14_Witness ==
    /\ PathReturned
    /\ Len(path.path.rows) > 2
    /\ FDiv(path.angle, path.res) % SCALE # 0

\* the angular step from sample k to sample k + 1 of a path of n samples:
\* the angle times the difference of their parameters (whole degrees and
\* the fraction multiplied apart)
StepAfter(n, k) ==
    (path.angle \div SCALE) * (Param(n, k + 1) - Param(n, k))
      + RDiv((path.angle % SCALE) * (Param(n, k + 1) - Param(n, k)), SCALE)

\* C15 (as stated): the path is divided into ceil(A / res) intervals, and
\* the angular step between consecutive samples never exceeds res.
C15_StepWithinRes ==
    (PathReturned /\ Len(path.path.rows) >= 2) =>
        LET n == Len(path.path.rows)
            q == FDiv(path.angle, path.res)
        IN /\ (n - 1) * SCALE >= q
           /\ (n - 2) * SCALE < q
           /\ \A k \in 1..(n - 1) : StepAfter(n, k) <= path.res

\* C15 (what the code does): a path of n >= 2 samples has n - 1 intervals
\* with ceil(A / res) = n, so that (n - 1) res < A: the n - 1 steps cannot
\* all be within res, and the largest of them exceeds it.
C15_IntervalsOneLessThanSamples ==
    (PathReturned /\ Len(path.path.rows) >= 2) =>
        LET n == Len(path.path.rows)
        IN /\ (n - 1) * path.res < path.angle
           /\ \E k \in 1..(n - 1) : StepAfter(n, k) > path.res

\* C15 witness: a path of three samples or more, each step of which is
\* longer than res.
C15_Witness ==
    /\ PathReturned
    /\ Len(path.path.rows) >= 3
    /\ \A k \in 1..(Len(path.path.rows) - 1) : StepAfter(Len(path.path.rows), k) > path.res

\* the last call was cart2sph: cur is cart2sph(argBefore, LastCall.degrees)
LastCart2sph == calls # <<>> /\ LastCall.op = "cart2sph"

\* the angle a, in radians, in the unit cart2sph was asked for
InUnit(a) == IF LastCall.degrees THEN Rad2deg(a) ELSE a

\* C16: cart2sph returns the norm as r, the azimuth atan2(y, x) of the
\* input's own x and y, never of the computed radius, and the polar angle
\* arccos(z / r); cart2sph([1,0,0]) is (1, 0, pi/2) and cart2sph([0,0,1])
\* has r = 1 and polar angle 0.
C16_AzimuthFromXY ==
    LastCart2sph =>
        \A i \in 1..Len(cur.rows) :
            LET c == argBefore.rows[i]
            IN /\ cur.rows[i][1] = Norm(c)
               /\ cur.rows[i][2] = InUnit(FArctan2(c[2], c[1]))
               /\ cur.rows[i][3] = InUnit(FArccos(FDiv(c[3], cur.rows[i][1])))
               /\ (c = <<SCALE, 0, 0>> /\ ~LastCall.degrees) =>
                    cur.rows[i] = <<SCALE, 0, HALFPI>>
               /\ (c = <<0, 0, SCALE>>) =>
                    (cur.rows[i][1] = SCALE /\ cur.rows[i][3] = 0)

\* C16 witness: cart2sph in radians on a vector with y # 0 whose x is not
\* its radius, so that atan2(y, x) and atan2(y, r) differ.
C16_Witness ==
    /\ LastCart2sph
    /\ ~LastCall.degrees
    /\ \E i \in 1..Len(cur.rows) :
        /\ argBefore.rows[i][2] # 0
        /\ IsNum(argBefore.rows[i][1])
        /\ argBefore.rows[i][1] # cur.rows[i][1]
        /\ IsNum(cur.rows[i][3])
        /\ cur.rows[i][2] # FArctan2(argBefore.rows[i][2], cur.rows[i][1])

\* the longitude lon, in degrees, brought into [-180, 180)
Wrap180(lon) == ((lon + 180 * SCALE) % (360 * SCALE)) - 180 * SCALE

\* the profile between the two endpoints crosses the antimeridian: their
\* longitudes are more than half a turn apart, so the shorter way from one
\* to the other passes longitude 180
CrossesAntimeridian ==
    Abs(Wrap180(path.g1[1]) - Wrap180(input.rows[1][1])) > 180 * SCALE

\* C17 (as stated): the script converts the dataset's longitudes if and
\* only if the profile between g0 and g1 crosses the antimeridian.
C17_ConvertsIffCrossing == path.called => (path.converted <=> CrossesAntimeridian)

\* both longitudes are given in [-180, 180]
LongitudesInRange ==
    Abs(path.g1[1]) <= 180 * SCALE /\ Abs(input.rows[1][1]) <= 180 * SCALE

\* C17 (what the code does): for longitudes given in [-180, 180] the
\* script converts whenever the profile crosses the antimeridian, and it
\* also converts whenever the two longitudes are 4 degrees or more apart,
\* crossing or not.
C17_ConvertsWhenCrossing ==
    (path.called /\ LongitudesInRange) =>
        /\ CrossesAntimeridian => path.converted
        /\ Abs(path.g1[1] - input.rows[1][1]) >= 4 * SCALE => path.converted

\* C17 witness: a profile that stays clear of the antimeridian, and the
\* dataset is converted all the same.
C17_Witness ==
    /\ path.called
    /\ path.converted
    /\ ~CrossesAntimeridian

\* the largest rounding error accepted in the longitude or latitude of a
\* sample that went through sph2cart, the slerp and cart2sph, in units of
\* 1 / SCALE degrees
EndTol == 150

\* the sample s is the geographic point g: the same latitude and, away
\* from the poles, the same longitude modulo 360, within EndTol
SamePoint(s, g) ==
    /\ IsNum(s[1])
    /\ IsNum(s[2])
    /\ Abs(s[2] - g[2]) <= EndTol
    /\ Abs(g[2]) <= 89 * SCALE => Abs(Wrap180(s[1] - g[1])) <= EndTol

\* fill_great_circle returned a path of at least one sample for two
\* distinct endpoints
NonEmptyPath ==
    /\ PathReturned
    /\ path.g1 # input.rows[1]
    /\ Len(path.path.rows) >= 1

\* C18 (as stated): every non-empty path for distinct endpoints has g0 as
\* its first sample and g1 as its last, also when the angular separation
\* is no larger than res.
C18_StartsAtG0EndsAtG1 ==
    NonEmptyPath =>
        /\ SamePoint(path.path.rows[1], input.rows[1])
        /\ SamePoint(path.path.rows[Len(path.path.rows)], path.g1)

\* C18 (what the code does): a path of two samples or more starts at g0
\* and ends at g1; a path of one sample, returned when the angular
\* separation is no larger than res, is g0 alone.
C18_EndsAtG1FromTwoSamples ==
    NonEmptyPath =>
        /\ SamePoint(path.path.rows[1], input.rows[1])
        /\ Len(path.path.rows) >= 2 =>
             SamePoint(path.path.rows[Len(path.path.rows)], path.g1)
        /\ Len(path.path.rows) = 1 <=> path.angle <= path.res

\* C18 witness: endpoints two degrees apart at a resolution of ten: the
\* path is one sample, which is g0 and not g1.
C18_Witness ==
    /\ NonEmptyPath
    /\ Len(path.path.rows) = 1
    /\ path.angle > SCALE
    /\ SamePoint(path.path.rows[1], input.rows[1])
    /\ ~SamePoint(path.path.rows[1], path.g1)
====
